---- MODULE Spec2Model ----
(***************************************************************************)
(* A model of tap_intacct/streams.py: the IntacctStream protocol adapter.  *)
(*                                                                         *)
(*   prepare_request / prepare_request_payload   the request envelope      *)
(*   parse_response                              envelope walk and error   *)
(*                                               classification            *)
(*   _parse_to_datetime / post_process           date normalisation        *)
(*                                                                         *)
(* Python exceptions are modelled by the name of the class raised, also    *)
(* for the ones the interpreter raises by itself (KeyError on d["k"] with  *)
(* k missing, AttributeError on x.get for an x that is no dict,            *)
(* UnboundLocalError on a local that no branch assigned).                  *)
(* Text is a sequence of one-character strings wherever the code looks     *)
(* inside it (dates); otherwise a string.                                  *)
(***************************************************************************)
EXTENDS Integers, Sequences, FiniteSets, TLC

VARIABLES
    stream,     \* the IntacctStream object: the fields __init__ sets
    prepared,   \* what the last prepare_request call returned (<<>>: nothing)
    reqError,   \* the exception the last prepare_request call raised (NoError: none)
    built,      \* the parts of the request envelope the last call built
    sent,       \* the number of requests handed to the transport
    response,   \* the HTTP response under parse (NoResponse: none)
    outcome,    \* what parse_response did with it
    row,        \* the record under post_process
    rowIn,      \* that record as it was passed in
    postError,  \* the exception post_process raised (kind "none": none)
    called      \* the arguments of the last prepare_request call (<<>>: none yet)

vars == <<stream, prepared, reqError, built, sent, response, outcome, row, rowIn,
          postError, called>>

(***************************************************************************)
(* Bounds of the model.                                                    *)
(***************************************************************************)
MaxSent == 2        \* requests handed to the transport in one behaviour
MaxRecords == 2     \* longest record list in a response

(***************************************************************************)
(* Text and dates.                                                         *)
(***************************************************************************)
Digits == <<"0", "1", "2", "3", "4", "5", "6", "7", "8", "9">>

DigitSet == {Digits[i] : i \in 1..10}

DigitVal(c) == (CHOOSE i \in 1..10 : Digits[i] = c) - 1

Pad2(n) == <<Digits[((n \div 10) % 10) + 1], Digits[(n % 10) + 1]>>

Pad4(n) == Pad2(n \div 100) \o Pad2(n % 100)

\* datetime.strftime("%m/%d/%Y %H:%M:%S")
FormatDateForIntacct(dt) ==
    Pad2(dt.month) \o <<"/">> \o Pad2(dt.day) \o <<"/">> \o Pad4(dt.year)
        \o <<" ">> \o Pad2(dt.hour) \o <<":">> \o Pad2(dt.minute)
        \o <<":">> \o Pad2(dt.second)

DateTime(y, mo, d, h, mi, s) ==
    [year |-> y, month |-> mo, day |-> d, hour |-> h, minute |-> mi, second |-> s]

NoDateTime == DateTime(0, 0, 0, 0, 0, 0)

IsLeap(y) == (y % 4 = 0 /\ y % 100 # 0) \/ y % 400 = 0

DaysInMonth(y, m) ==
    IF m = 2 THEN (IF IsLeap(y) THEN 29 ELSE 28)
    ELSE IF m \in {4, 6, 9, 11} THEN 30 ELSE 31

RECURSIVE NumVal(_)
NumVal(s) == IF s = <<>> THEN 0
             ELSE 10 * NumVal(SubSeq(s, 1, Len(s) - 1)) + DigitVal(s[Len(s)])

\* The maximal runs of digits of s, in order (a run may be empty).
RECURSIVE Fields(_)
Fields(s) ==
    IF \A i \in 1..Len(s) : s[i] \in DigitSet THEN <<s>>
    ELSE LET k == CHOOSE i \in 1..Len(s) :
                      s[i] \notin DigitSet /\ \A j \in 1..(i - 1) : s[j] \in DigitSet
         IN <<SubSeq(s, 1, k - 1)>> \o Fields(SubSeq(s, k + 1, Len(s)))

\* The characters of s that are no digits, in order.
Delims(s) == SelectSeq(s, LAMBDA c : c \notin DigitSet)

\* A strptime directive for a number of one or two digits within lo..hi.
Num2(f, lo, hi) == Len(f) \in 1..2 /\ NumVal(f) \in lo..hi

\* %m/%d/%Y as strptime matches it, and as datetime(...) accepts the result.
DatePartOk(f) ==
    /\ Num2(f[1], 1, 12)
    /\ Num2(f[2], 1, 31)
    /\ Len(f[3]) = 4
    /\ NumVal(f[3]) >= 1
    /\ NumVal(f[2]) <= DaysInMonth(NumVal(f[3]), NumVal(f[1]))

\* datetime.strptime(s, "%m/%d/%Y %H:%M:%S") succeeds.
MatchesFull(s) ==
    /\ Delims(s) = <<"/", "/", " ", ":", ":">>
    /\ LET f == Fields(s)
       IN /\ DatePartOk(f)
          /\ Num2(f[4], 0, 23)
          /\ Num2(f[5], 0, 59)
          /\ Num2(f[6], 0, 59)

\* datetime.strptime(s, "%m/%d/%Y") succeeds.
MatchesDateOnly(s) ==
    /\ Delims(s) = <<"/", "/">>
    /\ DatePartOk(Fields(s))

\* _parse_to_datetime: the full format, then the date-only one, then ValueError.
ParseToDatetime(s) ==
    IF MatchesFull(s)
    THEN LET f == Fields(s)
         IN [ok |-> TRUE,
             dt |-> DateTime(NumVal(f[3]), NumVal(f[1]), NumVal(f[2]),
                             NumVal(f[4]), NumVal(f[5]), NumVal(f[6]))]
    ELSE IF MatchesDateOnly(s)
    THEN LET f == Fields(s)
         IN [ok |-> TRUE,
             dt |-> DateTime(NumVal(f[3]), NumVal(f[1]), NumVal(f[2]), 0, 0, 0)]
    ELSE [ok |-> FALSE, dt |-> NoDateTime]

(***************************************************************************)
(* The stream object and its configuration.                                *)
(***************************************************************************)
\* tap_intacct.const, imported at line 14: the default replication field
\* and the per-stream overrides.
GET_BY_DATE_FIELD == "WHENMODIFIED"

REP_KEYS == [audit_history |-> "ACCESSTIME", general_ledger_details |-> "BATCH_DATE"]

\* REP_KEYS.get(name, GET_BY_DATE_FIELD)
RepKeyOf(name) == IF name \in DOMAIN REP_KEYS THEN REP_KEYS[name] ELSE GET_BY_DATE_FIELD

\* self.schema["properties"], in declared order.
SchemaProperties ==
    <<[name |-> "RECORDNO", format |-> "none"],
      [name |-> "WHENCREATED", format |-> "date-time"],
      [name |-> "WHENMODIFIED", format |-> "date-time"],
      [name |-> "NAME", format |-> "none"]>>

\* list(self.schema["properties"])
FieldNames(props) == [i \in 1..Len(props) |-> props[i].name]

\* __init__: the date-time fields, in schema order.
DatetimeFields(props) ==
    FieldNames(SelectSeq(props, LAMBDA p : p.format = "date-time"))

\* The stream names and remote object names the tap registers.
StreamNames == {"audit_history", "vendors", "general_ledger_details"}

ObjectOf(name) ==
    CASE name = "audit_history" -> "AUDITHISTORY"
      [] name = "vendors" -> "VENDOR"
      [] OTHER -> "GLDETAIL"

\* The replication_key argument of __init__ (default None).
ReplicationKeys == {"None", "WHENMODIFIED", "ACCESSTIME", "BATCH_DATE"}

\* __init__
NewStream(name, obj, rep_key) ==
    [name |-> name,
     intacct_obj_name |-> obj,
     replication_key |-> rep_key,
     session_id |-> "session-1",
     properties |-> SchemaProperties,
     datetime_fields |-> DatetimeFields(SchemaProperties)]

Streams == {NewStream(n, ObjectOf(n), k) : n \in StreamNames, k \in ReplicationKeys}

\* self.config
Config == [api_url |-> "https://api.intacct.com/ia/xml/xmlgw.phtml",
           sender_id |-> "sender", sender_password |-> "secret",
           user_agent |-> "tap-intacct"]

\* rest_method
RestMethod == "POST"

\* http_headers
HttpHeaders ==
    IF "user_agent" \in DOMAIN Config
    THEN [content_type |-> "application/xml", user_agent |-> Config.user_agent]
    ELSE [content_type |-> "application/xml", user_agent |-> ""]

PAGESIZE == 1000

OFFSET == 0

(***************************************************************************)
(* Exceptions.                                                             *)
(***************************************************************************)
NoError == [kind |-> "none", msg |-> ""]

Raised(kind, msg) == [kind |-> kind, msg |-> msg]

\* The error of the reserved stream: raise Exception("TODO hanlde audit streams").
UnsupportedStream == Raised("Exception", "TODO hanlde audit streams")

(***************************************************************************)
(* prepare_request_payload and prepare_request.                            *)
(***************************************************************************)
\* The inputs of one call: the starting timestamp the framework keeps for the
\* stream, the page token, the wall clock and the uuid drawn.
Watermarks == {DateTime(2024, 1, 15, 13, 45, 0), DateTime(2023, 12, 31, 23, 59, 59),
               DateTime(2000, 2, 29, 0, 0, 7)}

PageTokens == {"None", "page-2"}

Clocks == {"t1", "t2"}

Uuids == {"uuid-a", "uuid-b"}

\* The request envelope of lines 163-209.
DictBody(s, wm, now, uuid) ==
    LET rep_key == RepKeyOf(s.name)
        query_filter == [op |-> "greaterthanorequalto", field |-> rep_key,
                         value |-> FormatDateForIntacct(wm)]
        orderby == [field |-> rep_key, direction |-> "ascending"]
        query == [object |-> s.intacct_obj_name,
                  select |-> FieldNames(s.properties),
                  showprivate |-> "true",
                  filter |-> query_filter,
                  pagesize |-> PAGESIZE,
                  offset |-> OFFSET,
                  orderby |-> orderby]
    IN [control |-> [senderid |-> Config.sender_id,
                     password |-> Config.sender_password,
                     controlid |-> now,
                     uniqueid |-> FALSE,
                     dtdversion |-> "3.0",
                     includewhitespace |-> FALSE],
        operation |-> [sessionid |-> s.session_id,
                       function_controlid |-> uuid,
                       query |-> query]]

EnvelopeParts == {"filter", "orderby", "query", "control", "operation"}

\* prepare_request_payload that does not test the stream name.
PayloadForAnyStream(s, wm, token, now, uuid) ==
    [raised |-> NoError, built |-> EnvelopeParts, body |-> <<DictBody(s, wm, now, uuid)>>]

\* What a call of prepare_request_payload gives: the exception raised, if any, the
\* parts of the envelope built up to then, and the body returned (<<>>: none).
\* xmltodict.unparse serialises the envelope; the model keeps the envelope.
PrepareRequestPayload(s, wm, token, now, uuid) ==
    IF s.name = "audit_history"
    THEN [raised |-> UnsupportedStream, built |-> {}, body |-> <<>>]
    ELSE [raised |-> NoError, built |-> EnvelopeParts,
          body |-> <<DictBody(s, wm, now, uuid)>>]

\* prepare_request: the payload, then the prepared request; an exception of
\* prepare_request_payload leaves the call without a result.
PrepareRequestCall(s, wm, token, now, uuid) ==
    LET p == PrepareRequestPayload(s, wm, token, now, uuid)
    IN [raised |-> p.raised,
        built |-> p.built,
        request |-> IF p.raised = NoError
                    THEN <<[method |-> RestMethod, url |-> Config.api_url,
                            headers |-> HttpHeaders, data |-> p.body[1]]>>
                    ELSE <<>>]

(***************************************************************************)
(* The request side as a state machine: the framework calls                *)
(* prepare_request, and hands what it returns to the transport.            *)
(***************************************************************************)
Idle ==
    /\ prepared = <<>>
    /\ reqError = NoError
    /\ built = {}
    /\ sent = 0
    /\ called = <<>>
    /\ response = <<>>
    /\ outcome = <<>>
    /\ row = <<>>
    /\ rowIn = <<>>
    /\ postError = [kind |-> "none", date_str |-> <<>>]

InitRequest == stream \in Streams /\ Idle

PrepareRequest(wm, token, now, uuid) ==
    LET r == PrepareRequestCall(stream, wm, token, now, uuid)
    IN /\ called' = <<[watermark |-> wm, next_page_token |-> token]>>
       /\ prepared' = r.request
       /\ reqError' = r.raised
       /\ built' = r.built
       /\ UNCHANGED <<stream, sent, response, outcome, row, rowIn, postError>>

\* The framework's transport: it sends the request prepare_request returned.
Transport ==
    /\ prepared # <<>>
    /\ sent < MaxSent
    /\ sent' = sent + 1
    /\ prepared' = <<>>
    /\ UNCHANGED <<stream, reqError, built, called, response, outcome, row, rowIn,
                   postError>>

NextRequest ==
    \/ \E wm \in Watermarks, token \in PageTokens, now \in Clocks, uuid \in Uuids :
           PrepareRequest(wm, token, now, uuid)
    \/ Transport

SpecRequest == InitRequest /\ [][NextRequest]_vars

(***************************************************************************)
(* HTTP responses.  A body either cannot be decoded (xmltodict.parse       *)
(* raises) or decodes to nested dicts; the model keeps of a decoded body   *)
(* exactly the places parse_response reads.  "absent" is a missing key,    *)
(* "null" a key holding None (an empty XML element), "scalar" a text       *)
(* where the code expects a dict.                                          *)
(***************************************************************************)
StatusCodes == {200, 400, 401, 403, 404, 418, 429, 498, 500, 502, 503}

Statuses == {"absent", "success", "failure", "other"}

\* The text of a correction element, word by word.
PleaseTryAgainLater == <<"Please", "Try", "Again", "Later">>

CorrectionTexts ==
    {<<"Check", "the", "request">>,
     <<"Busy", "Please", "Try", "Again", "Later", "thanks">>,
     <<"Please", "Try", "Later">>}

NoText == [kind |-> "absent", words |-> <<>>]

Corrections ==
    {NoText, [kind |-> "null", words |-> <<>>]}
        \cup {[kind |-> "text", words |-> w] : w \in CorrectionTexts}

\* response.errormessage
NoOuter == [errormessage |-> "absent", error |-> "absent", errorno |-> "absent",
            correction |-> NoText]

OuterErrors ==
    {NoOuter, [NoOuter EXCEPT !.errormessage = "null"]}
        \cup {[NoOuter EXCEPT !.errormessage = "mapping", !.error = e] :
                  e \in {"absent", "scalar", "list"}}
        \cup {[errormessage |-> "mapping", error |-> "mapping", errorno |-> n,
               correction |-> c] :
                  n \in {"absent", "GW-0011", "XL03000006"}, c \in Corrections}

\* response.operation.result.data and its entry for the remote object:
\* no data key, data null, no entry for the object, one mapping, a list.
NoData == [shape |-> "absent", n |-> 0]

DataShapes ==
    {NoData, [shape |-> "null", n |-> 0], [shape |-> "noentry", n |-> 0],
     [shape |-> "single", n |-> 1]}
        \cup {[shape |-> "list", n |-> k] : k \in 0..MaxRecords}

\* response.operation.result.errormessage
NoResultError == [errormessage |-> "absent", error |-> "absent", description2 |-> "absent"]

ResultErrors ==
    {NoResultError, [NoResultError EXCEPT !.errormessage = "null"]}
        \cup {[NoResultError EXCEPT !.errormessage = "mapping", !.error = e] :
                  e \in {"absent", "scalar", "emptylist"}}
        \cup {[errormessage |-> "mapping", error |-> e, description2 |-> d] :
                  e \in {"mapping", "list"}, d \in {"absent", "Object not found"}}

\* response.operation.result
Results ==
    {[status |-> "absent", data |-> NoData, err |-> NoResultError]}
        \cup {[status |-> "success", data |-> d, err |-> NoResultError] : d \in DataShapes}
        \cup {[status |-> st, data |-> NoData, err |-> e] :
                  st \in {"failure", "other"}, e \in ResultErrors}

\* response.operation
NoOperation ==
    [present |-> FALSE, authentication |-> "absent", errormessage |-> FALSE,
     result |-> [status |-> "absent", data |-> NoData, err |-> NoResultError]]

Operations ==
    {NoOperation}
        \cup {[present |-> TRUE, authentication |-> a, errormessage |-> FALSE, result |-> r] :
                  a \in Statuses, r \in Results}
        \cup {[present |-> TRUE, authentication |-> "failure", errormessage |-> TRUE,
               result |-> r] : r \in Results}

NoBody == [control |-> "absent", operation |-> NoOperation, outer |-> NoOuter]

Bodies == {[control |-> c, operation |-> o, outer |-> e] :
               c \in Statuses, o \in Operations, e \in OuterErrors}

Responses ==
    {[status_code |-> sc, decodes |-> FALSE, body |-> NoBody] : sc \in StatusCodes}
        \cup {[status_code |-> sc, decodes |-> TRUE, body |-> b] :
                  sc \in StatusCodes, b \in Bodies}

(***************************************************************************)
(* parse_response.                                                         *)
(***************************************************************************)
NoRet == [type |-> "none", items |-> <<>>]

\* What a call did: where it ended (stage: "decode" lines 221-239, "envelope"
\* 241-272, "lookup" 285-288, "classify" 290-325), whether it returned or raised,
\* the class raised and what the exception carries, the value returned, whether
\* the error log line was written, and the envelope levels whose status it read.
Raise(stage, kind, carries, logged, inspected) ==
    [stage |-> stage, tag |-> "raise", kind |-> kind, carries |-> carries,
     ret |-> NoRet, logged |-> logged, inspected |-> inspected]

Return(value, inspected) ==
    [stage |-> "envelope", tag |-> "return", kind |-> "none", carries |-> "none",
     ret |-> value, logged |-> FALSE, inspected |-> inspected]

\* "Please Try Again Later" in correction
Contains(text, phrase) ==
    \E i \in 1..(Len(text) - Len(phrase) + 1) :
        SubSeq(text, i, i + Len(phrase) - 1) = phrase

\* The value of api_response["result"]["data"][self.intacct_obj_name]: the
\* records are numbered 1..n.
Entry(data) ==
    IF data.shape = "single"
    THEN [type |-> "dict", items |-> <<1>>]
    ELSE [type |-> "list", items |-> [i \in 1..data.n |-> i]]

\* The except clause of lines 224-239 without the 503 case.
DecodeFailureNo503(r) ==
    Raise("decode",
          IF r.status_code = 502 THEN "BadGatewayError"
          ELSE IF r.status_code = 429 THEN "RateLimitError"
          ELSE "InvalidXmlResponse",
          "status_and_text", FALSE, {})

\* Lines 224-239: the body did not decode.
DecodeFailure(r) ==
    Raise("decode",
          IF r.status_code = 502 THEN "BadGatewayError"
          ELSE IF r.status_code = 503 THEN "OfflineServiceError"
          ELSE IF r.status_code = 429 THEN "RateLimitError"
          ELSE "InvalidXmlResponse",
          "status_and_text", FALSE, {})

\* Lines 290-325 with the correction text looked at before the status code.
StatusErrorCorrectionFirst(sc, errorno, correction) ==
    IF correction.kind = "text" /\ correction.words # <<>>
       /\ Contains(correction.words, PleaseTryAgainLater)
    THEN "PleaseTryAgainLaterError"
    ELSE IF sc = 400
    THEN (IF errorno = "GW-0011" THEN "AuthFailure" ELSE "InvalidRequest")
    ELSE IF sc = 401 THEN "InvalidTokenError"
    ELSE IF sc = 403 THEN "NoPrivilegeError"
    ELSE IF sc = 404 THEN "NotFoundItemError"
    ELSE IF sc = 498 THEN "ExpiredTokenError"
    ELSE IF sc = 500 THEN "InternalServerError"
    ELSE "SageIntacctSDKError"

\* Lines 290-325: the class raised for a status code, the errorno and the
\* correction of response.errormessage.error.
StatusError(sc, errorno, correction) ==
    IF sc = 400
    THEN (IF errorno = "GW-0011" THEN "AuthFailure" ELSE "InvalidRequest")
    ELSE IF sc = 401 THEN "InvalidTokenError"
    ELSE IF sc = 403 THEN "NoPrivilegeError"
    ELSE IF sc = 404 THEN "NotFoundItemError"
    ELSE IF sc = 498 THEN "ExpiredTokenError"
    ELSE IF sc = 500 THEN "InternalServerError"
    ELSE IF correction.kind = "text" /\ correction.words # <<>>
            /\ Contains(correction.words, PleaseTryAgainLater)
    THEN "PleaseTryAgainLaterError"
    ELSE "SageIntacctSDKError"

\* Lines 285-325: response.errormessage.error is looked up with .get at every
\* level, which a level that is no dict does not have; then the status code
\* decides.  Every class raised here is built from parsed_response.
Classify(r, logged, inspected) ==
    LET o == r.body.outer
    IN IF o.errormessage = "null"
          \/ (o.errormessage = "mapping" /\ o.error \in {"scalar", "list"})
       THEN Raise("lookup", "AttributeError", "none", logged, inspected)
       ELSE Raise("classify", StatusError(r.status_code, o.errorno, o.correction),
                  "parsed_response", logged, inspected)

\* Lines 266-272: the description2 of result.errormessage.error, which is a
\* mapping or a list of mappings ("" otherwise, None when the key is missing).
Desc2(err) ==
    IF err.error \in {"mapping", "list"}
    THEN (IF err.description2 = "absent" THEN "None" ELSE err.description2)
    ELSE ""

\* Lines 259-272: result.status, the records or the error log line.
ResultLevel(s, r, inspected) ==
    LET res == r.body.operation.result
        seen == inspected \cup {"result"}
    IN IF res.status = "absent"
       THEN Raise("envelope", "KeyError", "none", FALSE, inspected)
       ELSE IF res.status = "success"
       THEN (IF res.data.shape \in {"absent", "noentry"}
             THEN Raise("envelope", "KeyError", "none", FALSE, seen)
             ELSE IF res.data.shape = "null"
             THEN Raise("envelope", "TypeError", "none", FALSE, seen)
             ELSE Return(Entry(res.data), seen))
       ELSE IF res.err.errormessage = "null"
       THEN Raise("envelope", "AttributeError", "none", TRUE, seen)
       ELSE Classify(r, TRUE, seen)

\* Lines 241-257: control.status, then authentication.status.  api_response is
\* assigned only when control.status is "success".
Envelope(s, r) ==
    LET b == r.body
        op == b.operation
    IN IF b.control = "absent"
       THEN Raise("envelope", "KeyError", "none", FALSE, {})
       ELSE IF b.control = "success" /\ ~op.present
       THEN Raise("envelope", "KeyError", "none", FALSE, {"control"})
       ELSE IF b.control = "failure"
       THEN (IF b.outer.errormessage = "absent"
             THEN Raise("envelope", "KeyError", "none", FALSE, {"control"})
             ELSE Raise("envelope", "WrongParamsError", "decoded_errormessage", FALSE,
                        {"control"}))
       ELSE IF b.control # "success"
       THEN Raise("envelope", "UnboundLocalError", "none", FALSE, {"control"})
       ELSE IF op.authentication = "absent"
       THEN Raise("envelope", "KeyError", "none", FALSE, {"control"})
       ELSE IF op.authentication = "failure"
       THEN (IF ~op.errormessage
             THEN Raise("envelope", "KeyError", "none", FALSE,
                        {"control", "authentication"})
             ELSE Raise("envelope", "InvalidTokenError", "operation_errormessage", FALSE,
                        {"control", "authentication"}))
       ELSE ResultLevel(s, r, {"control", "authentication"})

\* parse_response
ParseResponseOf(s, r) ==
    IF ~r.decodes THEN DecodeFailure(r)
    ELSE IF r.status_code = 200 THEN Envelope(s, r)
    ELSE Classify(r, FALSE, {})

InitParse == stream = NewStream("vendors", "VENDOR", "WHENMODIFIED") /\ Idle

\* One call of parse_response on the response the transport delivered.
ParseResponse(r) ==
    /\ response = <<>>
    /\ response' = <<r>>
    /\ outcome' = <<ParseResponseOf(stream, r)>>
    /\ UNCHANGED <<stream, prepared, reqError, built, sent, called, row, rowIn, postError>>

\* The envelope is dropped once the call has returned or raised.
DropResponse ==
    /\ response # <<>>
    /\ response' = <<>>
    /\ outcome' = <<>>
    /\ UNCHANGED <<stream, prepared, reqError, built, sent, called, row, rowIn, postError>>

NextParse ==
    \/ response = <<>> /\ \E r \in Responses : ParseResponse(r)
    \/ DropResponse

SpecParse == InitParse /\ [][NextParse]_vars

(***************************************************************************)
(* post_process.  A record maps every schema field to a value: a text, a   *)
(* datetime, None ("null"), or no value at all ("absent": the key is       *)
(* missing from the record).                                               *)
(***************************************************************************)
Absent == [t |-> "absent", s |-> <<>>, dt |-> NoDateTime]

Null == [t |-> "null", s |-> <<>>, dt |-> NoDateTime]

Str(s) == [t |-> "str", s |-> s, dt |-> NoDateTime]

Timestamp(dt) == [t |-> "datetime", s |-> <<>>, dt |-> dt]

\* Texts the vendor may send in a date field.
FullDate == FormatDateForIntacct(DateTime(2024, 1, 15, 13, 45, 0))

DateStrings ==
    {FullDate,                                                  \* 01/15/2024 13:45:00
     SubSeq(FullDate, 1, 10),                                   \* 01/15/2024
     <<"1", "/", "5", "/", "2", "0", "2", "4", " ", "7", ":", "0", "5", ":", "9">>,
     <<"0", "2", "/", "3", "0", "/", "2", "0", "2", "4">>,      \* 02/30/2024
     <<"2", "0", "2", "4", "-", "0", "1", "-", "1", "5">>,      \* 2024-01-15
     <<"n", "o", "t", "-", "a", "-", "d", "a", "t", "e">>,
     <<>>}

DateValues == {Absent, Null} \cup {Str(s) : s \in DateStrings}

Rows ==
    {[RECORDNO |-> Str(<<"7">>), WHENCREATED |-> c, WHENMODIFIED |-> m, NAME |-> n] :
         c \in DateValues, m \in DateValues, n \in {Null, Str(SubSeq(FullDate, 1, 10))}}

NoPostError == [kind |-> "none", date_str |-> <<>>]

\* The loop of lines 356-358 from its i-th field on: the record as the loop
\* leaves it, and the exception that ended it.  row[field] of a missing key is a
\* KeyError; _parse_to_datetime raises ValueError("Invalid date format: ...").
RECURSIVE PostProcessFrom(_, _, _)
PostProcessFrom(rw, fields, i) ==
    IF i > Len(fields) THEN [row |-> rw, raised |-> NoPostError]
    ELSE LET v == rw[fields[i]]
         IN IF v.t = "absent"
            THEN [row |-> rw, raised |-> [kind |-> "KeyError", date_str |-> <<>>]]
            ELSE IF v.t = "null"
            THEN PostProcessFrom(rw, fields, i + 1)
            ELSE LET p == ParseToDatetime(v.s)
                 IN IF p.ok
                    THEN PostProcessFrom([rw EXCEPT ![fields[i]] = Timestamp(p.dt)],
                                         fields, i + 1)
                    ELSE [row |-> rw,
                          raised |-> [kind |-> "ValueError", date_str |-> v.s]]

\* post_process: the record is changed in place.
PostProcessOf(s, rw) == PostProcessFrom(rw, s.datetime_fields, 1)

InitPost == stream = NewStream("vendors", "VENDOR", "WHENMODIFIED") /\ Idle

PostProcess(rw) ==
    /\ rowIn = <<>>
    /\ LET r == PostProcessOf(stream, rw)
       IN /\ rowIn' = <<rw>>
          /\ row' = <<r.row>>
          /\ postError' = r.raised
    /\ UNCHANGED <<stream, prepared, reqError, built, sent, called, response, outcome>>

\* The framework emits the record or reports the failure, and takes the next one.
NextRow ==
    /\ rowIn # <<>>
    /\ rowIn' = <<>>
    /\ row' = <<>>
    /\ postError' = NoPostError
    /\ UNCHANGED <<stream, prepared, reqError, built, sent, called, response, outcome>>

NextPost ==
    \/ rowIn = <<>> /\ \E rw \in Rows : PostProcess(rw)
    \/ NextRow

SpecPost == InitPost /\ [][NextPost]_vars

(***************************************************************************)
(* The properties.                                                         *)
(***************************************************************************)
\* The error classes of the taxonomy, by the names the code gives them.
Taxonomy ==
    {"BadGatewayError", "OfflineServiceError", "RateLimitError", "InvalidXmlResponse",
     "WrongParamsError", "InvalidTokenError", "AuthFailure", "InvalidRequest",
     "NoPrivilegeError", "NotFoundItemError", "ExpiredTokenError", "InternalServerError",
     "PleaseTryAgainLaterError", "SageIntacctSDKError"}

Parsed == response # <<>>

Resp == response[1]

Got == outcome[1]

\* HTTP 200, the body decodes, and the three envelope levels have these statuses.
Levels200(control, authentication, result) ==
    /\ Parsed
    /\ Resp.decodes
    /\ Resp.status_code = 200
    /\ Resp.body.control = control
    /\ Resp.body.operation.present
    /\ Resp.body.operation.authentication = authentication
    /\ Resp.body.operation.result.status = result

\* C1: with HTTP 200 and control, authentication and result all "success",
\* parse_response returns a list of records: empty when result.data has no entry
\* for the remote object, of one element when the entry is a single mapping, and
\* the list itself when the entry is a list.  (Stated for a result.data that is
\* there: the three cases the claim names.)
C1_RecordListCardinality ==
    (/\ Levels200("success", "success", "success")
     /\ Resp.body.operation.result.data.shape \in {"noentry", "single", "list"}) =>
        LET data == Resp.body.operation.result.data
        IN /\ Got.tag = "return"
           /\ Got.ret.type = "list"
           /\ Got.ret.items = [i \in 1..data.n |-> i]

\* C2: a parse_response call that returns no records raises an error of the
\* closed taxonomy, whatever the status code and the body.
C2_ClosedTaxonomy ==
    Parsed => Got.tag = "return" \/ (Got.tag = "raise" /\ Got.kind \in Taxonomy)

\* The status codes with an error class of their own.
StatusDriven == {400, 401, 403, 404, 498, 500}

\* C3: for a decoded body and a status code among 400, 401, 403, 404, 498, 500,
\* the class raised is fixed by the status code (400: AuthFailure with the
\* embedded error code GW-0011, InvalidRequest otherwise), for every payload.
\* (Stated for a response.errormessage.error that is missing, a mapping or a
\* list of mappings.)
C3_StatusCodeMapping ==
    (/\ Parsed
     /\ Resp.decodes
     /\ Resp.status_code \in StatusDriven
     /\ Resp.body.outer.errormessage # "null"
     /\ Resp.body.outer.error # "scalar") =>
        /\ Got.tag = "raise"
        /\ Got.kind =
               CASE Resp.status_code = 400 ->
                        IF Resp.body.outer.errorno = "GW-0011"
                        THEN "AuthFailure" ELSE "InvalidRequest"
                 [] Resp.status_code = 401 -> "InvalidTokenError"
                 [] Resp.status_code = 403 -> "NoPrivilegeError"
                 [] Resp.status_code = 404 -> "NotFoundItemError"
                 [] Resp.status_code = 498 -> "ExpiredTokenError"
                 [] Resp.status_code = 500 -> "InternalServerError"

\* C4: a body that does not decode is classified by the status code alone:
\* 502 BadGateway, 503 OfflineService, 429 RateLimit, anything else (200 too)
\* InvalidXmlResponse; no envelope level is read and no later classification
\* is reached.
C4_UndecodableByStatus ==
    (Parsed /\ ~Resp.decodes) =>
        /\ Got.tag = "raise"
        /\ Got.kind = CASE Resp.status_code = 502 -> "BadGatewayError"
                        [] Resp.status_code = 503 -> "OfflineServiceError"
                        [] Resp.status_code = 429 -> "RateLimitError"
                        [] OTHER -> "InvalidXmlResponse"
        /\ Got.stage = "decode"
        /\ Got.carries = "status_and_text"
        /\ Got.inspected = {}
        /\ ~Got.logged

\* A 503 whose body does not decode was parsed, and OfflineServiceError raised.
C4_Witness ==
    /\ Parsed
    /\ ~Resp.decodes
    /\ Resp.status_code = 503
    /\ Got.kind = "OfflineServiceError"

\* C5: with HTTP 200 and a decoded body the levels are read outermost first:
\* control.status "failure" raises WrongParameters with the message decoded from
\* response.errormessage; otherwise authentication.status "failure" raises
\* InvalidToken with the embedded error message; result.status is read only when
\* both are "success".  (Stated for envelopes that have a control.status, an
\* operation whose authentication.status is "success" or "failure", and the
\* errormessage the error raised is to carry.)
C5_OutermostFirst ==
    (/\ Parsed
     /\ Resp.decodes
     /\ Resp.status_code = 200
     /\ Resp.body.control # "absent"
     /\ Resp.body.operation.present
     /\ Resp.body.operation.authentication \in {"success", "failure"}
     /\ Resp.body.control = "failure" => Resp.body.outer.errormessage # "absent"
     /\ Resp.body.operation.authentication = "failure" =>
            Resp.body.operation.errormessage) =>
        /\ Resp.body.control = "failure" =>
               (Got.kind = "WrongParamsError" /\ Got.carries = "decoded_errormessage")
        /\ (Resp.body.control # "failure"
                /\ Resp.body.operation.authentication = "failure") =>
               (Got.kind = "InvalidTokenError" /\ Got.carries = "operation_errormessage")
        /\ "result" \in Got.inspected =>
               (Resp.body.control = "success"
                    /\ Resp.body.operation.authentication = "success")

\* C6: with HTTP 200, control and authentication "success" and result.status
\* "failure", parse_response writes the error log line and then raises an error
\* that reflects the description2 of result.errormessage.error when there is one;
\* the log line is written in this branch and in no other.  (Stated for envelopes
\* whose three statuses are "success" or "failure" and whose
\* response.errormessage.error is missing, a mapping or a list of mappings.)
C6_ResultFailureLogged ==
    (/\ Parsed
     /\ Resp.decodes
     /\ Resp.body.control \in {"success", "failure"}
     /\ Resp.body.operation.authentication \in {"success", "failure"}
     /\ Resp.body.operation.result.status \in {"success", "failure"}
     /\ Resp.body.outer.errormessage # "null"
     /\ Resp.body.outer.error # "scalar") =>
        /\ Levels200("success", "success", "failure") =>
               /\ Got.logged
               /\ Got.tag = "raise"
               /\ Resp.body.operation.result.err.description2 # "absent" =>
                      Got.carries = "parsed_response"
        /\ Got.logged => Levels200("success", "success", "failure")

C8_ReservedStreamFailsFast ==
    /\ stream.name = "audit_history" =>
           /\ sent = 0
           /\ prepared = <<>>
           /\ built = {}
           /\ called # <<>> => reqError = UnsupportedStream
    /\ stream.name # "audit_history" => reqError # UnsupportedStream

\* prepare_request was called for audit_history and raised.
C8_Witness ==
    /\ stream.name = "audit_history"
    /\ called # <<>>
    /\ called[1].next_page_token = "page-2"
    /\ reqError = UnsupportedStream

\* C9: post_process either converts every declared date-time field that is
\* present and not null, or fails with InvalidDateFormat leaving no mix of
\* converted and unconverted date fields; null date fields and fields not
\* declared date-time are unchanged.  (Stated for records that hold every
\* declared date-time field.)
C9_NeverPartiallyNormalized ==
    (/\ rowIn # <<>>
     /\ \A i \in 1..Len(stream.datetime_fields) :
            rowIn[1][stream.datetime_fields[i]].t # "absent") =>
        LET in == rowIn[1]
            out == row[1]
            dates == {stream.datetime_fields[i] : i \in 1..Len(stream.datetime_fields)}
        IN /\ postError.kind \in {"none", "ValueError"}
           /\ postError.kind = "none" =>
                  \A f \in dates : in[f].t = "str" => out[f].t = "datetime"
           /\ postError.kind # "none" =>
                  ~ \E f, g \in dates : out[f].t = "datetime" /\ out[g].t = "str"
           /\ \A f \in dates : in[f].t = "null" => out[f] = Null
           /\ \A f \in (DOMAIN in) \ dates : out[f] = in[f]

====
